---- MODULE Spec2Model ----
(***************************************************************************)
(* gonfoot: the gRPC/HTTP server of package server.                        *)
(*                                                                         *)
(* Two specifications over one state:                                      *)
(*   Spec     the service lifecycle: the coordinator (ListenAndServe), the *)
(*            listener goroutine (listenAndServe), the monitors, the       *)
(*            cancellation signal and the connections of the http server.  *)
(*   ReqSpec  one request at a time travelling through the handler chain   *)
(*            built by New (upgradeHandler, the ServeMux routes and the    *)
(*            gates), interleaved with the writers of the health flags.    *)
(***************************************************************************)
EXTENDS Integers, Sequences, FiniteSets, TLC

(* ------------------------------ bounds -------------------------------- *)

\* connections the listener accepts in one run
MaxConns == 2

\* deliveries of the cancellation signal that are told apart
MaxSignals == 2

(* ------------------------------ state --------------------------------- *)

VARIABLES
  \* HealthState: the five atomic flags of server (server.go 49-53)
  live, ready, shutdownRequested, httpServerAvailable, databaseAvailable,
  \* the coordinator, ListenAndServe: its position and what it returned
  coordPc, retErr, retPath,
  \* the listener goroutine, listenAndServe: its position
  lisPc,
  \* the lifecycle context s.ctx, and how often the signal was delivered
  ctxDone, signals,
  \* the monitor goroutines have been started
  monitorsStarted,
  \* the socket: "unbound", "bindFailed", "open", "closed", "failed"
  listener,
  \* http.Server: Shutdown has been called
  srvInShutdown,
  \* the timeout context of the drain: "unset", "running", "expired"
  deadline,
  \* the datastore handle is connected
  dbConnected,
  \* connections: accepted so far, in flight and tracked by the http server,
  \* in flight and hijacked (h2c), cut off by the server
  accepted, active, hijacked, aborted,
  \* the tracked connections that were in flight when Shutdown was called
  inFlightAtDrain,
  \* the roles ("listener", "coordinator") that have written
  \* httpServerAvailable since New
  availableWriters,
  \* calls of the collaborators
  bindCalls, connectCalls, migrateCalls, shutdownCalls,
  \* the request being served: as it was received, as the next handler sees
  \* it, the handlers still to run (the first one runs next), the response
  \* written, the handlers invoked so far and the lines logged for it
  reqIn, req, chain, resp, calls, reqLog

flagVars == <<live, ready, shutdownRequested, httpServerAvailable, databaseAvailable>>
coordVars == <<coordPc, retErr, retPath>>
connVars == <<accepted, active, hijacked, aborted, inFlightAtDrain>>
callVars == <<bindCalls, connectCalls, migrateCalls, shutdownCalls>>
lifeVars == <<flagVars, coordVars, lisPc, ctxDone, signals, monitorsStarted,
              listener, srvInShutdown, deadline, dbConnected, connVars, callVars,
              availableWriters>>

reqVars == <<reqIn, req, chain, resp, calls, reqLog>>

vars == <<lifeVars, reqVars>>

(* atomic.Bool.CompareAndSwap(old, new) on a flag holding v *)
CompareAndSwap(v, old, new) == IF v = old THEN new ELSE v

(* the writers of httpServerAvailable after role has stored into it *)
AfterStore(role) == availableWriters \cup {role}

(* the writers of httpServerAvailable after role's CompareAndSwap(old, _)  *)
(* on the flag holding v: the swap writes only when it finds old           *)
AfterSwap(role, v, old) ==
  IF v = old THEN availableWriters \cup {role} ELSE availableWriters

(* ------------------------- after New (62-118) ------------------------- *)

LifeInit ==
  /\ live = FALSE
  /\ ready = FALSE
  /\ shutdownRequested = FALSE
  /\ httpServerAvailable = FALSE
  /\ databaseAvailable = FALSE
  /\ coordPc = "L121"
  /\ retErr = "none"
  /\ retPath = "none"
  /\ lisPc = "notStarted"
  /\ ctxDone = FALSE
  /\ signals = 0
  /\ monitorsStarted = FALSE
  /\ listener = "unbound"
  /\ srvInShutdown = FALSE
  /\ deadline = "unset"
  /\ dbConnected = FALSE
  /\ accepted = 0 /\ active = 0 /\ hijacked = 0 /\ aborted = 0
  /\ inFlightAtDrain = 0
  /\ availableWriters = {}
  /\ bindCalls = 0 /\ connectCalls = 0 /\ migrateCalls = 0 /\ shutdownCalls = 0

(* ------------------- the coordinator: ListenAndServe ------------------ *)

\* 121-124: the four go statements
StartGoroutines ==
  /\ UNCHANGED <<reqVars, availableWriters>>
  /\ coordPc = "L121"
  /\ coordPc' = "L126"
  /\ lisPc' = "L157"
  /\ monitorsStarted' = TRUE
  /\ UNCHANGED <<flagVars, retErr, retPath, ctxDone, signals, listener,
                 srvInShutdown, deadline, dbConnected, connVars, callVars>>

\* a failure of Connect that is dropped: the coordinator goes on to 129
ConnectErrorIgnored == [pc |-> "L129", err |-> "none", path |-> "none"]

\* 126-128: where a failure of Connect takes the coordinator: it returns
\* the error, wrapped
OnConnectError == [pc |-> "returned", err |-> "connectErr", path |-> "connect"]

\* 126-128: s.db.Connect()
DbConnect(ok) ==
  /\ UNCHANGED <<reqVars, availableWriters>>
  /\ coordPc = "L126"
  /\ connectCalls' = connectCalls + 1
  /\ IF ok
       THEN /\ dbConnected' = TRUE
            /\ coordPc' = "L129"
            /\ UNCHANGED <<retErr, retPath>>
       ELSE /\ coordPc' = OnConnectError.pc
            /\ retErr' = OnConnectError.err
            /\ retPath' = OnConnectError.path
            /\ UNCHANGED dbConnected
  /\ UNCHANGED <<flagVars, lisPc, ctxDone, signals, monitorsStarted, listener,
                 srvInShutdown, deadline, connVars, bindCalls, migrateCalls,
                 shutdownCalls>>

\* a failure of Migrate that is returned to the caller
MigrateErrorReturned == [pc |-> "returned", err |-> "migrateErr", path |-> "migrate"]

\* 130-131: where a failure of Migrate takes the coordinator: it is logged
\* and nil is returned
OnMigrateError == [pc |-> "returned", err |-> "nil", path |-> "migrate"]

\* 129-132: migrations.Migrate()
Migrate(ok) ==
  /\ UNCHANGED <<reqVars, availableWriters>>
  /\ coordPc = "L129"
  /\ migrateCalls' = migrateCalls + 1
  /\ IF ok
       THEN /\ coordPc' = "L135"
            /\ UNCHANGED <<retErr, retPath>>
       ELSE /\ coordPc' = OnMigrateError.pc
            /\ retErr' = OnMigrateError.err
            /\ retPath' = OnMigrateError.path
  /\ UNCHANGED <<flagVars, lisPc, ctxDone, signals, monitorsStarted, listener,
                 srvInShutdown, deadline, dbConnected, connVars, bindCalls,
                 connectCalls, shutdownCalls>>

\* 136: the receive of the select meets a send of the listener goroutine
\* (161 or 167) on the unbuffered channel; the sender goes on and returns
SelectHttpClosed ==
  /\ UNCHANGED <<reqVars, availableWriters>>
  /\ coordPc = "L135"
  /\ lisPc \in {"L161", "L167"}
  /\ coordPc' = "L138"
  /\ lisPc' = "exited"
  /\ UNCHANGED <<flagVars, retErr, retPath, ctxDone, signals, monitorsStarted,
                 listener, srvInShutdown, deadline, dbConnected, connVars, callVars>>

\* 137-139
HttpClosedReturn ==
  /\ UNCHANGED reqVars
  /\ availableWriters' = AfterSwap("coordinator", httpServerAvailable, TRUE)
  /\ coordPc = "L138"
  /\ httpServerAvailable' = CompareAndSwap(httpServerAvailable, TRUE, FALSE)
  /\ coordPc' = "returned"
  /\ retErr' = "nil"
  /\ retPath' = "httpClosed"
  /\ UNCHANGED <<live, ready, shutdownRequested, databaseAvailable, lisPc, ctxDone,
                 signals, monitorsStarted, listener, srvInShutdown, deadline,
                 dbConnected, connVars, callVars>>

\* 140: the select takes the cancellation
SelectCtxDone ==
  /\ UNCHANGED <<reqVars, availableWriters>>
  /\ coordPc = "L135"
  /\ ctxDone
  /\ coordPc' = "L142"
  /\ UNCHANGED <<flagVars, retErr, retPath, lisPc, ctxDone, signals, monitorsStarted,
                 listener, srvInShutdown, deadline, dbConnected, connVars, callVars>>

\* 142
ClearAvailable ==
  /\ UNCHANGED reqVars
  /\ availableWriters' = AfterSwap("coordinator", httpServerAvailable, TRUE)
  /\ coordPc = "L142"
  /\ httpServerAvailable' = CompareAndSwap(httpServerAvailable, TRUE, FALSE)
  /\ coordPc' = "L143"
  /\ UNCHANGED <<live, ready, shutdownRequested, databaseAvailable, retErr, retPath,
                 lisPc, ctxDone, signals, monitorsStarted, listener, srvInShutdown,
                 deadline, dbConnected, connVars, callVars>>

\* 143
RequestShutdown ==
  /\ UNCHANGED <<reqVars, availableWriters>>
  /\ coordPc = "L143"
  /\ shutdownRequested' = CompareAndSwap(shutdownRequested, FALSE, TRUE)
  /\ coordPc' = "L146"
  /\ UNCHANGED <<live, ready, httpServerAvailable, databaseAvailable, retErr, retPath,
                 lisPc, ctxDone, signals, monitorsStarted, listener, srvInShutdown,
                 deadline, dbConnected, connVars, callVars>>

\* a shutdown that closes every connection at once, as http.Server.Close
ShutdownClosesAll(n) == n

\* what http.Server.Shutdown does to the connections in flight when it is
\* called: nothing, it waits for the tracked ones
ShutdownAborts(n) == 0

\* what http.Server.Shutdown does to the socket when it is called
ShutdownListener(l) == IF l = "open" THEN "closed" ELSE l

\* 144-146: the timeout context is made and Shutdown is called: it marks the
\* server as shutting down, closes the socket and goes to look at the
\* connections
ShutdownBegin ==
  /\ UNCHANGED <<reqVars, availableWriters>>
  /\ coordPc = "L146"
  /\ shutdownCalls' = shutdownCalls + 1
  /\ srvInShutdown' = TRUE
  /\ listener' = ShutdownListener(listener)
  /\ deadline' = "running"
  /\ inFlightAtDrain' = active
  /\ aborted' = aborted + ShutdownAborts(active)
  /\ active' = active - ShutdownAborts(active)
  /\ coordPc' = "shutdownPoll"
  /\ UNCHANGED <<flagVars, retErr, retPath, lisPc, ctxDone, signals, monitorsStarted,
                 dbConnected, accepted, hijacked, bindCalls, connectCalls,
                 migrateCalls>>

\* the timeout of 144 expires while Shutdown runs
DeadlineExpire ==
  /\ UNCHANGED <<reqVars, availableWriters>>
  /\ coordPc \in {"shutdownPoll", "shutdownWait"}
  /\ deadline = "running"
  /\ deadline' = "expired"
  /\ UNCHANGED <<flagVars, coordVars, lisPc, ctxDone, signals, monitorsStarted,
                 listener, srvInShutdown, dbConnected, connVars, callVars>>

\* a branch that falls back into the loop of 134
DrainLoops == "L135"

\* 147, 151: where the coordinator goes when Shutdown has returned
DrainReturn == "returned"

\* 146, 148-151: Shutdown finds no tracked connection in flight and returns
\* nil (hijacked connections are not waited for)
ShutdownDrained ==
  /\ UNCHANGED <<reqVars, availableWriters>>
  /\ coordPc = "shutdownPoll"
  /\ active = 0
  /\ coordPc' = DrainReturn
  /\ retErr' = "nil"
  /\ retPath' = "ctxDone"
  /\ UNCHANGED <<flagVars, lisPc, ctxDone, signals, monitorsStarted, listener,
                 srvInShutdown, deadline, dbConnected, connVars, callVars>>

\* 146: Shutdown finds a tracked connection in flight and waits for its
\* poll timer or the timeout
ShutdownBusy ==
  /\ UNCHANGED <<reqVars, availableWriters>>
  /\ coordPc = "shutdownPoll"
  /\ active > 0
  /\ coordPc' = "shutdownWait"
  /\ UNCHANGED <<flagVars, retErr, retPath, lisPc, ctxDone, signals, monitorsStarted,
                 listener, srvInShutdown, deadline, dbConnected, connVars, callVars>>

\* 146: the poll timer of Shutdown fires
ShutdownTick ==
  /\ UNCHANGED <<reqVars, availableWriters>>
  /\ coordPc = "shutdownWait"
  /\ coordPc' = "shutdownPoll"
  /\ UNCHANGED <<flagVars, retErr, retPath, lisPc, ctxDone, signals, monitorsStarted,
                 listener, srvInShutdown, deadline, dbConnected, connVars, callVars>>

\* the connections still in flight that the coordinator closes when the
\* drain timed out: 146-147 return the error and close nothing
ForceClosed(n) == 0

\* 146-147: Shutdown returns the error of the expired context
ShutdownTimedOut ==
  /\ UNCHANGED <<reqVars, availableWriters>>
  /\ coordPc = "shutdownWait"
  /\ deadline = "expired"
  /\ coordPc' = DrainReturn
  /\ retErr' = "shutdownErr"
  /\ retPath' = "ctxDone"
  /\ aborted' = aborted + ForceClosed(active)
  /\ active' = active - ForceClosed(active)
  /\ UNCHANGED <<flagVars, lisPc, ctxDone, signals, monitorsStarted, listener,
                 srvInShutdown, deadline, dbConnected, accepted, hijacked,
                 inFlightAtDrain, callVars>>

(* ---------------- the listener goroutine: listenAndServe -------------- *)

\* 157
StoreAvailable ==
  /\ UNCHANGED reqVars
  /\ availableWriters' = AfterStore("listener")
  /\ lisPc = "L157"
  /\ httpServerAvailable' = TRUE
  /\ lisPc' = "L158"
  /\ UNCHANGED <<live, ready, shutdownRequested, databaseAvailable, coordVars,
                 ctxDone, signals, monitorsStarted, listener, srvInShutdown,
                 deadline, dbConnected, connVars, callVars>>

\* 158-160: net.Listen; on failure the goroutine goes to the send of 161
Bind(ok) ==
  /\ UNCHANGED <<reqVars, availableWriters>>
  /\ lisPc = "L158"
  /\ bindCalls' = bindCalls + 1
  /\ IF ok
       THEN listener' = "open" /\ lisPc' = "L164"
       ELSE listener' = "bindFailed" /\ lisPc' = "L161"
  /\ UNCHANGED <<flagVars, coordVars, ctxDone, signals, monitorsStarted,
                 srvInShutdown, deadline, dbConnected, connVars, connectCalls,
                 migrateCalls, shutdownCalls>>

\* 164: httpServer.Serve(lis); a server already shut down closes the socket
\* and returns ErrServerClosed at once, and the goroutine ends
ServeBegin ==
  /\ UNCHANGED <<reqVars, availableWriters>>
  /\ lisPc = "L164"
  /\ IF srvInShutdown
       THEN listener' = "closed" /\ lisPc' = "exited"
       ELSE lisPc' = "serving" /\ UNCHANGED listener
  /\ UNCHANGED <<flagVars, coordVars, ctxDone, signals, monitorsStarted,
                 srvInShutdown, deadline, dbConnected, connVars, callVars>>

\* 164: Serve returns ErrServerClosed after Shutdown; the goroutine ends
ServeClosed ==
  /\ UNCHANGED <<reqVars, availableWriters>>
  /\ lisPc = "serving"
  /\ srvInShutdown
  /\ lisPc' = "exited"
  /\ UNCHANGED <<flagVars, coordVars, ctxDone, signals, monitorsStarted, listener,
                 srvInShutdown, deadline, dbConnected, connVars, callVars>>

\* 164-165: Serve returns another error: the socket is gone
ServeError ==
  /\ UNCHANGED <<reqVars, availableWriters>>
  /\ lisPc = "serving"
  /\ ~srvInShutdown
  /\ listener' = "failed"
  /\ lisPc' = "L166"
  /\ UNCHANGED <<flagVars, coordVars, ctxDone, signals, monitorsStarted,
                 srvInShutdown, deadline, dbConnected, connVars, callVars>>

\* 166; the send of 167 is SelectHttpClosed
ServeErrorClear ==
  /\ UNCHANGED reqVars
  /\ availableWriters' = AfterSwap("listener", httpServerAvailable, TRUE)
  /\ lisPc = "L166"
  /\ httpServerAvailable' = CompareAndSwap(httpServerAvailable, TRUE, FALSE)
  /\ lisPc' = "L167"
  /\ UNCHANGED <<live, ready, shutdownRequested, databaseAvailable, coordVars,
                 ctxDone, signals, monitorsStarted, listener, srvInShutdown,
                 deadline, dbConnected, connVars, callVars>>

(* ----------------- connections of the http server (164) --------------- *)

\* Serve accepts a connection from the open socket; an HTTP/2 one is
\* hijacked by the h2c handler of 114
Accept(h2c) ==
  /\ UNCHANGED <<reqVars, availableWriters>>
  /\ lisPc = "serving"
  /\ listener = "open"
  /\ accepted < MaxConns
  /\ accepted' = accepted + 1
  /\ IF h2c
       THEN hijacked' = hijacked + 1 /\ UNCHANGED active
       ELSE active' = active + 1 /\ UNCHANGED hijacked
  /\ UNCHANGED <<flagVars, coordVars, lisPc, ctxDone, signals, monitorsStarted,
                 listener, srvInShutdown, deadline, dbConnected, aborted,
                 inFlightAtDrain, callVars>>

\* a request in flight completes and its connection closes
Complete(h2c) ==
  /\ UNCHANGED <<reqVars, availableWriters>>
  /\ IF h2c
       THEN hijacked > 0 /\ hijacked' = hijacked - 1 /\ UNCHANGED active
       ELSE active > 0 /\ active' = active - 1 /\ UNCHANGED hijacked
  /\ UNCHANGED <<flagVars, coordVars, lisPc, ctxDone, signals, monitorsStarted,
                 listener, srvInShutdown, deadline, dbConnected, accepted, aborted,
                 inFlightAtDrain, callVars>>

(* ------------------------ the lifecycle context ----------------------- *)

\* the cancellation signal is delivered (again)
Cancel ==
  /\ UNCHANGED <<reqVars, availableWriters>>
  /\ signals < MaxSignals
  /\ signals' = signals + 1
  /\ ctxDone' = TRUE
  /\ UNCHANGED <<flagVars, coordVars, lisPc, monitorsStarted, listener,
                 srvInShutdown, deadline, dbConnected, connVars, callVars>>

(* ----------------------- the monitors (122-124) ----------------------- *)

\* liveMonitor: a tick stores the result of the self-check
LiveMonitor(ok) ==
  /\ UNCHANGED <<reqVars, availableWriters>>
  /\ monitorsStarted /\ ~ctxDone
  /\ live' = ok
  /\ UNCHANGED <<ready, shutdownRequested, httpServerAvailable, databaseAvailable,
                 coordVars, lisPc, ctxDone, signals, monitorsStarted, listener,
                 srvInShutdown, deadline, dbConnected, connVars, callVars>>

\* dbMonitor: a tick stores the result of a ping of the datastore
DbMonitor(ok) ==
  /\ UNCHANGED <<reqVars, availableWriters>>
  /\ monitorsStarted /\ ~ctxDone
  /\ databaseAvailable' = (dbConnected /\ ok)
  /\ UNCHANGED <<live, ready, shutdownRequested, httpServerAvailable, coordVars,
                 lisPc, ctxDone, signals, monitorsStarted, listener, srvInShutdown,
                 deadline, dbConnected, connVars, callVars>>

\* readyMonitor: a tick derives ready from the two availability flags
ReadyMonitor ==
  /\ UNCHANGED <<reqVars, availableWriters>>
  /\ monitorsStarted /\ ~ctxDone
  /\ ready' = (httpServerAvailable /\ databaseAvailable)
  /\ UNCHANGED <<live, shutdownRequested, httpServerAvailable, databaseAvailable,
                 coordVars, lisPc, ctxDone, signals, monitorsStarted, listener,
                 srvInShutdown, deadline, dbConnected, connVars, callVars>>

(* =================== the handler chain built by New =================== *)

\* decoded Authorization payloads are strings over Alphabet of at most
\* MaxPayload characters
MaxPayload == 3

Alphabet == {"u", "p", ":"}

SeqsUpTo(S, n) == UNION {[1..k -> S] : k \in 0..n}

\* config.ExampleBasicAuthUser and config.ExampleBasicAuthPassword
ExampleBasicAuthUser == <<"u">>
ExampleBasicAuthPassword == <<"p">>

\* a URL path "/a/b" is the sequence <<"a", "b">> of its segments; a path
\* ending in a slash has the empty string as its last one: "/" is <<"">>
Paths ==
  { <<"">>, <<"other">>, <<"favicon.ico">>, <<"static", "app.js">>, <<"metrics">>,
    <<"api">>, <<"api", "probe", "startup">>, <<"api", "probe", "live">>,
    <<"api", "probe", "ready">>, <<"api", "ExampleGet">>,
    <<"probe", "startup">>, <<"probe", "live">>, <<"probe", "ready">>,
    <<"examplereverseproxy", "x">> }

Methods == {"GET", "POST"}

ContentTypes == {"application/grpc", "application/grpc+proto", "application/json"}

\* the Authorization header: absent, of another scheme, "Basic" followed by
\* something that is no base64, or "Basic" and the base64 of payload
AuthHeaders ==
  { [kind |-> k, payload |-> <<>>] : k \in {"none", "bearer", "badBase64"} }
    \cup { [kind |-> "basic", payload |-> p] : p \in SeqsUpTo(Alphabet, MaxPayload) }

Requests ==
  [protoMajor : {1, 2}, contentType : ContentTypes, method : Methods,
   path : Paths, auth : AuthHeaders]

NoReq == [protoMajor |-> 0, contentType |-> "", method |-> "", path |-> <<>>,
          auth |-> [kind |-> "none", payload |-> <<>>]]

NoResp == [status |-> 0, by |-> "none", challenge |-> FALSE]

ReqStart ==
  /\ reqIn = NoReq
  /\ req = NoReq
  /\ chain = <<>>
  /\ resp = NoResp
  /\ calls = <<>>
  /\ reqLog = <<>>

\* the number of times handler h was invoked for the request
Invoked(h) == Cardinality({i \in 1..Len(calls) : calls[i] = h})

(* ------------------ upgradeHandler (part_000 10-18) ------------------- *)

\* a dispatch that looks at the content type alone
IsGrpcAnyProtocol(r) == r.contentType = "application/grpc"

\* 12: the condition of the dispatch
IsGrpc(r) == r.protoMajor = 2 /\ r.contentType = "application/grpc"

\* 12-16
UpgradeTarget(r) == IF IsGrpc(r) THEN "grpcServer" ELSE "mux"

\* a request arrives on a connection of the serving listener and enters the
\* handler of the http server (server.go 114)
Arrive ==
  /\ req = NoReq
  /\ lisPc = "serving" /\ listener = "open"
  /\ \E r \in Requests : reqIn' = r /\ req' = r
  /\ chain' = <<"upgradeHandler">>
  /\ resp' = NoResp
  /\ calls' = <<>>
  /\ reqLog' = <<>>
  /\ UNCHANGED lifeVars

UpgradeHandler ==
  /\ chain # <<>> /\ Head(chain) = "upgradeHandler"
  /\ calls' = Append(calls, "upgradeHandler")
  /\ chain' = <<UpgradeTarget(req)>>
  /\ UNCHANGED <<reqIn, req, resp, reqLog, lifeVars>>

\* the gRPC server registered at server.go 83-84 answers
GrpcServer ==
  /\ chain # <<>> /\ Head(chain) = "grpcServer"
  /\ calls' = Append(calls, "grpcServer")
  /\ resp' = [status |-> 200, by |-> "grpcServer", challenge |-> FALSE]
  /\ chain' = <<>>
  /\ UNCHANGED <<reqIn, req, reqLog, lifeVars>>

(* -------------------- the ServeMux (server.go 102-110) ---------------- *)

\* the patterns registered at 103-109
Patterns ==
  { <<"">>, <<"favicon.ico">>, <<"static", "">>, <<"metrics">>, <<"api", "">>,
    <<"examplereverseproxy", "">> }

\* a wiring that puts the two gates in front of every route
RouteChainAllGated(pat) ==
  CASE pat = <<"">> -> <<"requireBasicAuth", "notFound">>
    [] pat = <<"favicon.ico">> -> <<"requireBasicAuth", "fileServer">>
    [] pat = <<"static", "">> -> <<"stripStatic", "onlyWhenReady", "fileServer">>
    [] pat = <<"metrics">> -> <<"requireBasicAuth", "metrics">>
    [] pat = <<"api", "">> -> <<"stripApi", "onlyWhenReady", "logger", "grpcMux">>
    [] pat = <<"examplereverseproxy", "">> -> <<"onlyWhenReady", "logger", "reverseProxy">>

\* the handlers New wraps around each pattern, outermost first
RouteChain(pat) ==
  CASE pat = <<"">> -> <<"requireBasicAuth", "notFound">>
    [] pat = <<"favicon.ico">> -> <<"fileServer">>
    [] pat = <<"static", "">> -> <<"stripStatic", "fileServer">>
    [] pat = <<"metrics">> -> <<"metrics">>
    [] pat = <<"api", "">> -> <<"stripApi", "onlyWhenReady", "logger", "grpcMux">>
    [] pat = <<"examplereverseproxy", "">> -> <<"logger", "reverseProxy">>

IsSubtree(pat) == pat[Len(pat)] = ""

\* http.ServeMux: a pattern ending in a slash matches every path it is a
\* prefix of, any other pattern matches the equal path
Matches(pat, p) ==
  IF IsSubtree(pat)
    THEN /\ Len(p) >= Len(pat)
         /\ SubSeq(p, 1, Len(pat) - 1) = SubSeq(pat, 1, Len(pat) - 1)
    ELSE p = pat

\* the named segments of a pattern: "/" has none, "/api/" one
Depth(pat) == Cardinality({i \in 1..Len(pat) : pat[i] # ""})

\* http.ServeMux: the longest matching pattern wins ("/" matches all)
BestPattern(p) ==
  CHOOSE pat \in Patterns :
    /\ Matches(pat, p)
    /\ \A q \in Patterns : Matches(q, p) => Depth(q) <= Depth(pat)

\* http.ServeMux: a path that is no pattern, with its slash-ended form
\* registered, is redirected there
MuxRedirects(p) == p \notin Patterns /\ Append(p, "") \in Patterns

Mux ==
  /\ chain # <<>> /\ Head(chain) = "mux"
  /\ calls' = Append(calls, "mux")
  /\ IF MuxRedirects(req.path)
       THEN /\ resp' = [status |-> 301, by |-> "mux", challenge |-> FALSE]
            /\ chain' = <<>>
       ELSE /\ chain' = RouteChain(BestPattern(req.path))
            /\ UNCHANGED resp
  /\ UNCHANGED <<reqIn, req, reqLog, lifeVars>>

\* http.StripPrefix of 105 and 107: the matched first segment is cut off
StripPrefix(h) ==
  /\ chain # <<>> /\ Head(chain) = h
  /\ calls' = Append(calls, h)
  /\ req' = [req EXCEPT !.path = Tail(req.path)]
  /\ chain' = Tail(chain)
  /\ UNCHANGED <<reqIn, resp, reqLog, lifeVars>>

(* --------------------- logger (part_000 20-25) ------------------------ *)

Logger ==
  /\ chain # <<>> /\ Head(chain) = "logger"
  /\ calls' = Append(calls, "logger")
  /\ reqLog' = Append(reqLog, "request")
  /\ chain' = Tail(chain)
  /\ UNCHANGED <<reqIn, req, resp, lifeVars>>

(* ------------------ onlyWhenReady (part_000 47-56) -------------------- *)

\* a gate that never closes
GateAlwaysOpen(flag) == TRUE

\* 49: the gate lets the request through
GateOpen(flag) == flag

OnlyWhenReady ==
  /\ chain # <<>> /\ Head(chain) = "onlyWhenReady"
  /\ calls' = Append(calls, "onlyWhenReady")
  /\ IF GateOpen(ready)
       THEN /\ chain' = Tail(chain)
            /\ UNCHANGED <<resp, reqLog>>
       ELSE /\ resp' = [status |-> 503, by |-> "onlyWhenReady", challenge |-> FALSE]
            /\ reqLog' = Append(reqLog, "service called when not ready")
            /\ chain' = <<>>
  /\ UNCHANGED <<reqIn, req, lifeVars>>

(* ----------------- requireBasicAuth (part_000 58-70) ------------------ *)

\* the first colon of a payload, 0 when it has none
FirstColon(p) ==
  IF \E i \in 1..Len(p) : p[i] = ":"
    THEN CHOOSE i \in 1..Len(p) : p[i] = ":" /\ \A j \in 1..(i - 1) : p[j] # ":"
    ELSE 0

\* 60: http.Request.BasicAuth: the credentials of a Basic header whose
\* payload decodes and holds a colon, cut at the first colon
BasicAuth(a) ==
  IF a.kind = "basic" /\ FirstColon(a.payload) > 0
    THEN [ok |-> TRUE,
          user |-> SubSeq(a.payload, 1, FirstColon(a.payload) - 1),
          pass |-> SubSeq(a.payload, FirstColon(a.payload) + 1, Len(a.payload))]
    ELSE [ok |-> FALSE, user |-> <<>>, pass |-> <<>>]

\* subtle.ConstantTimeCompare: 1 for equal lengths and equal bytes, else 0
ConstantTimeCompare(x, y) ==
  IF Len(x) = Len(y) /\ \A i \in 1..Len(x) : x[i] = y[i] THEN 1 ELSE 0

\* a check that leaves the password out
AuthorizedByUserOnly(a) ==
  /\ BasicAuth(a).ok
  /\ ConstantTimeCompare(BasicAuth(a).user, ExampleBasicAuthUser) = 1

\* 61: the request is let through
Authorized(a) ==
  ~ ( \/ ~BasicAuth(a).ok
      \/ ConstantTimeCompare(BasicAuth(a).user, ExampleBasicAuthUser) # 1
      \/ ConstantTimeCompare(BasicAuth(a).pass, ExampleBasicAuthPassword) # 1 )

\* 63-64: the answer to a request that is not let through
Unauthorized == [status |-> 401, by |-> "requireBasicAuth", challenge |-> TRUE]

RequireBasicAuth ==
  /\ chain # <<>> /\ Head(chain) = "requireBasicAuth"
  /\ calls' = Append(calls, "requireBasicAuth")
  /\ IF Authorized(req.auth)
       THEN /\ reqLog' = Append(reqLog, "authorized request")
            /\ chain' = Tail(chain)
            /\ UNCHANGED resp
       ELSE /\ reqLog' = Append(reqLog, "unauthorized request")
            /\ resp' = Unauthorized
            /\ chain' = <<>>
  /\ UNCHANGED <<reqIn, req, lifeVars>>

(* ------------------------- terminal handlers -------------------------- *)

\* http.NotFoundHandler of 103
NotFound ==
  /\ chain # <<>> /\ Head(chain) = "notFound"
  /\ calls' = Append(calls, "notFound")
  /\ resp' = [status |-> 404, by |-> "notFound", challenge |-> FALSE]
  /\ chain' = <<>>
  /\ UNCHANGED <<reqIn, req, reqLog, lifeVars>>

\* http.FileServer of 104-105: the file is there or not
FileServer(found) ==
  /\ chain # <<>> /\ Head(chain) = "fileServer"
  /\ calls' = Append(calls, "fileServer")
  /\ resp' = [status |-> IF found THEN 200 ELSE 404, by |-> "fileServer",
              challenge |-> FALSE]
  /\ chain' = <<>>
  /\ UNCHANGED <<reqIn, req, reqLog, lifeVars>>

\* promhttp.Handler of 106
Metrics ==
  /\ chain # <<>> /\ Head(chain) = "metrics"
  /\ calls' = Append(calls, "metrics")
  /\ resp' = [status |-> 200, by |-> "metrics", challenge |-> FALSE]
  /\ chain' = <<>>
  /\ UNCHANGED <<reqIn, req, reqLog, lifeVars>>

\* reverseProxy (part_000 27-45): the upstream answers or not
ReverseProxy(up) ==
  /\ chain # <<>> /\ Head(chain) = "reverseProxy"
  /\ calls' = Append(calls, "reverseProxy")
  /\ resp' = [status |-> IF up THEN 200 ELSE 502, by |-> "reverseProxy",
              challenge |-> FALSE]
  /\ chain' = <<>>
  /\ UNCHANGED <<reqIn, req, reqLog, lifeVars>>

\* the routes of the gateway mux, from the http options of service API
\* (api.proto 55-102): the rpc a method and path are bound to
GatewayRoute(m, p) ==
  CASE m = "GET" /\ p = <<"probe", "startup">> -> "StartupProbe"
    [] m = "GET" /\ p = <<"probe", "live">> -> "LivenessProbe"
    [] m = "GET" /\ p = <<"probe", "ready">> -> "ReadinessProbe"
    [] m = "GET" /\ p = <<"ExampleGet">> -> "ExampleGet"
    [] m = "POST" /\ p = <<"ExamplePost">> -> "ExamplePost"
    [] m = "GET" /\ p = <<"download">> -> "Download"
    [] m = "GET" /\ p = <<"migrations">> -> "GetMigrations"
    [] OTHER -> "none"

ProbeRpcs == {"StartupProbe", "LivenessProbe", "ReadinessProbe"}

\* what an rpc answers: a probe answers from its health flag
RpcStatus(rpc) ==
  CASE rpc = "LivenessProbe" -> IF live THEN 200 ELSE 503
    [] rpc = "ReadinessProbe" -> IF ready THEN 200 ELSE 503
    [] OTHER -> 200

\* grpcMux of 85-100: the gateway calls the rpc the route is bound to
GrpcMux ==
  /\ chain # <<>> /\ Head(chain) = "grpcMux"
  /\ calls' = Append(calls, "grpcMux")
  /\ LET rpc == GatewayRoute(req.method, req.path) IN
       resp' = IF rpc = "none"
                 THEN [status |-> 404, by |-> "grpcMux", challenge |-> FALSE]
                 ELSE [status |-> RpcStatus(rpc), by |-> rpc, challenge |-> FALSE]
  /\ chain' = <<>>
  /\ UNCHANGED <<reqIn, req, reqLog, lifeVars>>

\* the response has been written and the request is over
Finish ==
  /\ req # NoReq /\ chain = <<>>
  /\ reqIn' = NoReq
  /\ req' = NoReq
  /\ resp' = NoResp
  /\ calls' = <<>>
  /\ reqLog' = <<>>
  /\ UNCHANGED <<chain, lifeVars>>

(* --------------------------- specification ---------------------------- *)

LifeNext ==
  \/ StartGoroutines
  \/ \E ok \in BOOLEAN : DbConnect(ok)
  \/ \E ok \in BOOLEAN : Migrate(ok)
  \/ SelectHttpClosed
  \/ HttpClosedReturn
  \/ SelectCtxDone
  \/ ClearAvailable
  \/ RequestShutdown
  \/ ShutdownBegin
  \/ DeadlineExpire
  \/ ShutdownDrained
  \/ ShutdownBusy
  \/ ShutdownTick
  \/ ShutdownTimedOut
  \/ StoreAvailable
  \/ \E ok \in BOOLEAN : Bind(ok)
  \/ ServeBegin
  \/ ServeClosed
  \/ ServeError
  \/ ServeErrorClear
  \/ \E h2c \in BOOLEAN : Accept(h2c)
  \/ \E h2c \in BOOLEAN : Complete(h2c)
  \/ Cancel
  \/ \E ok \in BOOLEAN : LiveMonitor(ok)
  \/ \E ok \in BOOLEAN : DbMonitor(ok)
  \/ ReadyMonitor

Init == LifeInit /\ ReqStart

Next == LifeNext

Spec == Init /\ [][Next]_vars

\* the lifecycle while it serves: the goroutines run, the socket is bound
\* and served, the datastore is connected and migrated, the coordinator
\* waits in its select
Serving ==
  /\ live = FALSE
  /\ ready = FALSE
  /\ shutdownRequested = FALSE
  /\ httpServerAvailable = TRUE
  /\ databaseAvailable = FALSE
  /\ coordPc = "L135"
  /\ retErr = "none"
  /\ retPath = "none"
  /\ lisPc = "serving"
  /\ ctxDone = FALSE
  /\ signals = 0
  /\ monitorsStarted = TRUE
  /\ listener = "open"
  /\ srvInShutdown = FALSE
  /\ deadline = "unset"
  /\ dbConnected = TRUE
  /\ accepted = 0 /\ active = 0 /\ hijacked = 0 /\ aborted = 0
  /\ inFlightAtDrain = 0
  /\ availableWriters = {"listener"}
  /\ bindCalls = 1 /\ connectCalls = 1 /\ migrateCalls = 1 /\ shutdownCalls = 0

ReqInit == Serving /\ ReqStart

ReqNext ==
  \/ Arrive
  \/ UpgradeHandler
  \/ GrpcServer
  \/ Mux
  \/ \E h \in {"stripApi", "stripStatic"} : StripPrefix(h)
  \/ Logger
  \/ OnlyWhenReady
  \/ RequireBasicAuth
  \/ NotFound
  \/ \E found \in BOOLEAN : FileServer(found)
  \/ Metrics
  \/ \E up \in BOOLEAN : ReverseProxy(up)
  \/ GrpcMux
  \/ Finish
  \/ \E ok \in BOOLEAN : LiveMonitor(ok)
  \/ \E ok \in BOOLEAN : DbMonitor(ok)
  \/ ReadyMonitor

ReqSpec == ReqInit /\ [][ReqNext]_vars

(* ============================ properties ============================== *)

\* the number of times handler h is still to run for the request
Pending(h) == Cardinality({i \in 1..Len(chain) : chain[i] = h})

\* the request is over: its response is written, no handler is left to run
Done == reqIn # NoReq /\ chain = <<>>

(* C1 (ReqSpec): once upgradeHandler has run, the request is handed to the *)
(* gRPC server if and only if it was received over protocol major version *)
(* 2 with Content-Type application/grpc, and to the ServeMux in every      *)
(* other case; exactly one of the two gets it, once, and upgradeHandler    *)
(* itself runs once; the path plays no part.                               *)
C1_Demultiplex ==
  (reqIn # NoReq /\ Invoked("upgradeHandler") > 0) =>
    LET grpc == reqIn.protoMajor = 2 /\ reqIn.contentType = "application/grpc" IN
      /\ Invoked("upgradeHandler") = 1
      /\ Invoked("grpcServer") + Pending("grpcServer") = (IF grpc THEN 1 ELSE 0)
      /\ Invoked("mux") + Pending("mux") = (IF grpc THEN 0 ELSE 1)
      /\ Done => Invoked("grpcServer") + Invoked("mux") = 1

\* an HTTP/1.x request typed application/grpc was answered by the HTTP chain
C1_Witness ==
  /\ Done
  /\ reqIn.protoMajor = 1 /\ reqIn.contentType = "application/grpc"
  /\ Invoked("mux") = 1 /\ Invoked("grpcServer") = 0

(* C2 (ReqSpec): the step of the readiness gate reads ready once: when it  *)
(* reads false it answers 503 and ends the request, when it reads true it  *)
(* writes no response and hands the unchanged request on; and a finished   *)
(* request that met the gate has run the wrapped handler (the logger       *)
(* around the gateway) never when the gate answered, once otherwise.       *)
C2_ReadinessGate ==
  /\ [][ (chain # <<>> /\ Head(chain) = "onlyWhenReady" /\ calls' # calls) =>
           IF ready
             THEN chain' = Tail(chain) /\ req' = req /\ resp' = NoResp
             ELSE /\ resp'.status = 503 /\ resp'.by = "onlyWhenReady"
                  /\ chain' = <<>> ]_vars
  /\ [] ( (Done /\ Invoked("onlyWhenReady") > 0) =>
            /\ Invoked("onlyWhenReady") = 1
            /\ IF resp.by = "onlyWhenReady"
                 THEN Invoked("logger") = 0 /\ Invoked("grpcMux") = 0
                 ELSE Invoked("logger") = 1 /\ Invoked("grpcMux") = 1 )

\* the gate answered 503 for a flag that has turned true since it was read
C2_Witness ==
  /\ Done
  /\ resp.status = 503 /\ resp.by = "onlyWhenReady"
  /\ ready

\* the probe routes of api.proto 56-70, with and without the /api prefix
ProbePaths ==
  { <<"probe", "startup">>, <<"probe", "live">>, <<"probe", "ready">>,
    <<"api", "probe", "startup">>, <<"api", "probe", "live">>,
    <<"api", "probe", "ready">> }

(* C3 (ReqSpec): an HTTP GET of a probe route without an Authorization     *)
(* header is answered by the probe handler, whatever the health flags are, *)
(* never by the readiness gate or the basic-auth gate.                     *)
C3_ProbesUngated ==
  ( /\ Done
    /\ reqIn.method = "GET" /\ reqIn.path \in ProbePaths
    /\ reqIn.auth.kind = "none"
    /\ ~(reqIn.protoMajor = 2 /\ reqIn.contentType = "application/grpc") )
  => resp.by \in ProbeRpcs

\* the Authorization header that carries the configured credentials
ConfiguredHeader ==
  [kind |-> "basic",
   payload |-> ExampleBasicAuthUser \o <<":">> \o ExampleBasicAuthPassword]

(* C4 (ReqSpec): once the basic-auth gate has run, the request is handed   *)
(* to the wrapped handler if and only if its Authorization header carries  *)
(* the configured username and password; every other request has got 401   *)
(* with the WWW-Authenticate challenge and the wrapped handler is never    *)
(* run for it.                                                             *)
C4_BasicAuthGate ==
  (reqIn # NoReq /\ Invoked("requireBasicAuth") > 0) =>
    /\ Invoked("requireBasicAuth") = 1
    /\ IF reqIn.auth = ConfiguredHeader
         THEN /\ resp.by # "requireBasicAuth"
              /\ Invoked("notFound") + Pending("notFound") = 1
         ELSE /\ resp.status = 401 /\ resp.challenge
              /\ resp.by = "requireBasicAuth"
              /\ Invoked("notFound") + Pending("notFound") = 0

\* the right username with a wrong password got the challenge
C4_Witness ==
  /\ Done
  /\ reqIn.auth = [kind |-> "basic", payload |-> <<"u", ":", "u">>]
  /\ resp.status = 401 /\ resp.challenge
  /\ Invoked("notFound") = 0

(* C5 (Spec): shutdownRequested never goes from true back to false (so it  *)
(* turns true at most once), and httpServer.Shutdown is called at most     *)
(* once, however often the signal is delivered and whatever the listener   *)
(* reports.                                                                *)
C5_ShutdownOnce ==
  [][ /\ shutdownRequested => shutdownRequested'
      /\ shutdownCalls' <= 1 ]_vars

\* the drain was started once, after two signals and an error of Serve
C5_Witness ==
  /\ shutdownRequested /\ shutdownCalls = 1
  /\ signals = MaxSignals
  /\ lisPc = "L167"

(* C6 (Spec): when the bind has failed and the datastore steps have        *)
(* succeeded, ListenAndServe returns a non-nil error.                      *)
C6_BindFailureReturnsError ==
  (listener = "bindFailed" /\ coordPc = "returned" /\ retPath \notin {"connect", "migrate"})
    => retErr \notin {"none", "nil"}

C8_TimeoutForceCloses ==
  (coordPc = "returned" /\ retErr = "shutdownErr") => active = 0

(* C9 (Spec): when the coordinator has left the serving loop of a listener *)
(* that was bound, on the cancellation or on the listener's report, then   *)
(* listenerAvailable is false, shutdownRequested is true and the drain has *)
(* been started.                                                           *)
C9_ShutdownEntry ==
  ( /\ coordPc = "returned" /\ retPath \in {"httpClosed", "ctxDone"}
    /\ listener \in {"open", "closed", "failed"} )
  => (~httpServerAvailable /\ shutdownRequested /\ shutdownCalls = 1)

(* C10 (Spec): after a failed Connect the coordinator has returned the     *)
(* connect error; Connect was called once, Migrate never, and the          *)
(* coordinator is not in its serving loop.                                 *)
C10_ConnectFailure ==
  (connectCalls > 0 /\ ~dbConnected) =>
    /\ coordPc = "returned" /\ retErr = "connectErr"
    /\ connectCalls = 1 /\ migrateCalls = 0

\* the connect error was returned while the listener goroutine serves
C10_Witness ==
  /\ coordPc = "returned" /\ retErr = "connectErr"
  /\ lisPc = "serving" /\ accepted > 0

(* C11 (Spec): once Migrate has failed, ListenAndServe has returned nil;   *)
(* Shutdown is never called and the socket is never closed; no later step  *)
(* moves the coordinator, and the only step that can still clear           *)
(* listenerAvailable is the listener goroutine's own (166).                *)
C11_MigrationAbsorbed ==
  /\ [] ( retPath = "migrate" =>
            /\ coordPc = "returned" /\ retErr = "nil"
            /\ shutdownCalls = 0 /\ ~srvInShutdown
            /\ listener # "closed" )
  /\ [][ retPath = "migrate" =>
           /\ coordPc' = coordPc /\ retErr' = retErr /\ retPath' = retPath
           /\ (httpServerAvailable /\ ~httpServerAvailable') => lisPc = "L166" ]_vars

\* the migration failed and the listener accepts a connection afterwards
C11_Witness ==
  /\ retPath = "migrate" /\ retErr = "nil"
  /\ lisPc = "serving" /\ listener = "open" /\ httpServerAvailable
  /\ active > 0

\* the routes outside the two gated subtrees, and the handler that ends each
UngatedPaths ==
  { <<"favicon.ico">>, <<"static", "app.js">>, <<"metrics">>,
    <<"examplereverseproxy", "x">> }

UngatedTerminal(p) ==
  CASE p = <<"favicon.ico">> -> "fileServer"
    [] p = <<"static", "app.js">> -> "fileServer"
    [] p = <<"metrics">> -> "metrics"
    [] p = <<"examplereverseproxy", "x">> -> "reverseProxy"

(* C12 (ReqSpec): a request for /favicon.ico, /static/app.js, /metrics or  *)
(* the reverse-proxy subtree that goes to the HTTP chain never meets the   *)
(* readiness gate or the basic-auth gate, whatever the flags and the       *)
(* Authorization header are, and when it is over its terminal handler has  *)
(* run once and written the response.                                      *)
C12_UngatedRoutes ==
  ( /\ reqIn # NoReq
    /\ reqIn.path \in UngatedPaths
    /\ ~(reqIn.protoMajor = 2 /\ reqIn.contentType = "application/grpc") )
  => /\ Invoked("onlyWhenReady") + Pending("onlyWhenReady") = 0
     /\ Invoked("requireBasicAuth") + Pending("requireBasicAuth") = 0
     /\ resp.by \notin {"onlyWhenReady", "requireBasicAuth"}
     /\ Done => /\ resp.by = UngatedTerminal(reqIn.path)
                /\ Invoked(UngatedTerminal(reqIn.path)) = 1

\* /metrics was served without credentials while the service was not ready
C12_Witness ==
  /\ Done
  /\ reqIn.path = <<"metrics">> /\ reqIn.auth.kind = "none"
  /\ ~ready
  /\ resp.by = "metrics" /\ resp.status = 200

(* C13 (ReqSpec): for every request that meets the readiness gate, the     *)
(* audit logger has run, and it has run before the gate.                   *)
C13_AuditBeforeGate ==
  (Done /\ Invoked("onlyWhenReady") > 0) =>
    \E i, j \in 1..Len(calls) :
      i < j /\ calls[i] = "logger" /\ calls[j] = "onlyWhenReady"

(* C14 (Spec): when the context is cancelled while the listener serves and *)
(* the coordinator has returned without a startup error, so that no step   *)
(* of it is left to come, shutdownRequested is true and the drain has been *)
(* started.                                                                *)
C14_CancelStartsDrain ==
  (ctxDone /\ lisPc = "serving" /\ coordPc = "returned" /\ retPath # "connect")
    => (shutdownRequested /\ shutdownCalls > 0)

(* C15 (Spec): listenerAvailable is true only while the socket is bound    *)
(* and open.                                                               *)
C15_AvailableMeansBound ==
  httpServerAvailable => listener = "open"

(* C16 (Spec): listenerAvailable is written by at most one of the listener *)
(* goroutine and the coordinator.                                          *)
C16_SingleWriter ==
  Cardinality(availableWriters) <= 1

(* C17 (Spec): once ListenAndServe has returned through the cancellation   *)
(* or the listener-closed branch, listenerAvailable is false.              *)
C17_ClosedIsTerminal ==
  (coordPc = "returned" /\ retPath \in {"ctxDone", "httpClosed"})
    => ~httpServerAvailable

(* C18 (Spec): the listener goroutine never waits at its send on           *)
(* httpClosed (161, 167) when the coordinator has returned and no receive  *)
(* is left to come.                                                        *)
C18_SendIsReceived ==
  lisPc \in {"L161", "L167"} => coordPc # "returned"

====
